---- MODULE Spec2Model ----
(***************************************************************************)
(* Model of the Baymax API (src/app.py): the four request handlers         *)
(* triage_assess, drug_interactions_check, education_leaflet, end_session  *)
(* and the static tables they read.  Python strings are TLA+ strings; the  *)
(* str methods the handlers use (strip, lower, title, replace, join, the   *)
(* "in" substring test, the < of sorted) are operators that compute what   *)
(* the methods compute, character by character.  The vitals are integers   *)
(* around the thresholds of the code.  Every handler runs to completion    *)
(* without awaiting, so a call is one step; no handler assigns a module    *)
(* global, and education_leaflet builds its table anew in every call.      *)
(* The one thing a call does not take from its request is the order in     *)
(* which triage_rules iterates the set of lowercased symptoms.             *)
(***************************************************************************)
EXTENDS Integers, Sequences, FiniteSets, TLC

VARIABLES pc, op, request, names, blob, response, request2, response2

vars == <<pc, op, request, names, blob, response, request2, response2>>

(***************************************************************************)
(* Bounds of the model.                                                    *)
(***************************************************************************)
MaxSymptoms == 2
MaxNames == 3
MaxIds == 2

(***************************************************************************)
(* Optional[T]: None is the empty set, a present value x is {x}.           *)
(***************************************************************************)
None == {}
Some(x) == {x}
Get(o) == CHOOSE x \in o : TRUE

(***************************************************************************)
(* Python str: characters, code-point order, whitespace, case.             *)
(***************************************************************************)
Digits == "0123456789"
UpperLetters == "ABCDEFGHIJKLMNOPQRSTUVWXYZ"
LowerLetters == "abcdefghijklmnopqrstuvwxyz"

Char(s, i) == SubSeq(s, i, i)
Chars(s) == {Char(s, i) : i \in 1..Len(s)}
IndexIn(c, alphabet) == CHOOSE i \in 1..Len(alphabet) : Char(alphabet, i) = c

\* ord(c) for the characters the requests are built from.
OrdOf ==
    [c \in Chars(Digits) |-> 47 + IndexIn(c, Digits)]
    @@ [c \in Chars(UpperLetters) |-> 64 + IndexIn(c, UpperLetters)]
    @@ [c \in Chars(LowerLetters) |-> 96 + IndexIn(c, LowerLetters)]
    @@ ("\t" :> 9) @@ ("\n" :> 10) @@ (" " :> 32) @@ ("." :> 46) @@ (":" :> 58)
Ord(c) == OrdOf[c]

\* c.lower() and c.upper() of the letters.
LowerOf == [c \in Chars(UpperLetters) |-> Char(LowerLetters, IndexIn(c, UpperLetters))]
UpperOf == [c \in Chars(LowerLetters) |-> Char(UpperLetters, IndexIn(c, LowerLetters))]

IsSpace(c) == c \in {" ", "\t", "\n"}
IsUpper(c) == c \in DOMAIN LowerOf
IsLower(c) == c \in DOMAIN UpperOf
LowerChar(c) == IF IsUpper(c) THEN LowerOf[c] ELSE c
UpperChar(c) == IF IsLower(c) THEN UpperOf[c] ELSE c

RECURSIVE Lower(_)
Lower(s) == IF Len(s) = 0 THEN "" ELSE LowerChar(Char(s, 1)) \o Lower(SubSeq(s, 2, Len(s)))

RECURSIVE LStrip(_)
LStrip(s) == IF Len(s) > 0 /\ IsSpace(Char(s, 1)) THEN LStrip(SubSeq(s, 2, Len(s))) ELSE s

RECURSIVE RStrip(_)
RStrip(s) == IF Len(s) > 0 /\ IsSpace(Char(s, Len(s))) THEN RStrip(SubSeq(s, 1, Len(s) - 1)) ELSE s

Strip(s) == RStrip(LStrip(s))

\* str.title(): a letter after a letter is lowercased, any other letter uppercased.
RECURSIVE TitleFrom(_, _)
TitleFrom(s, prevCased) ==
    IF Len(s) = 0 THEN ""
    ELSE LET c == Char(s, 1)
             cased == IsUpper(c) \/ IsLower(c)
         IN (IF prevCased THEN LowerChar(c) ELSE UpperChar(c)) \o TitleFrom(SubSeq(s, 2, Len(s)), cased)

Title(s) == TitleFrom(s, FALSE)

\* t in s
Contains(t, s) == \E i \in 1..(Len(s) - Len(t) + 1) : SubSeq(s, i, i + Len(t) - 1) = t

StartsWith(s, t) == Len(s) >= Len(t) /\ SubSeq(s, 1, Len(t)) = t

\* s.replace(old, new): every non-overlapping occurrence, left to right.
RECURSIVE Replace(_, _, _)
Replace(s, old, new) ==
    IF Len(s) = 0 THEN ""
    ELSE IF StartsWith(s, old) THEN new \o Replace(SubSeq(s, Len(old) + 1, Len(s)), old, new)
    ELSE Char(s, 1) \o Replace(SubSeq(s, 2, Len(s)), old, new)

\* a < b on str: lexicographic by code point.
RECURSIVE StrLess(_, _)
StrLess(a, b) ==
    IF Len(b) = 0 THEN FALSE
    ELSE IF Len(a) = 0 THEN TRUE
    ELSE IF Char(a, 1) = Char(b, 1) THEN StrLess(SubSeq(a, 2, Len(a)), SubSeq(b, 2, Len(b)))
    ELSE Ord(Char(a, 1)) < Ord(Char(b, 1))

\* tuple(sorted((a, b)))
SortedPair(a, b) == IF StrLess(b, a) THEN <<b, a>> ELSE <<a, b>>

\* sep.join(parts)
RECURSIVE Join(_, _)
Join(sep, parts) ==
    IF Len(parts) = 0 THEN ""
    ELSE IF Len(parts) = 1 THEN parts[1]
    ELSE parts[1] \o sep \o Join(sep, Tail(parts))

Range(f) == {f[i] : i \in DOMAIN f}
SeqsUpTo(S, n) == UNION {[1..k -> S] : k \in 0..n}

(***************************************************************************)
(* Simple rule-based triage.                                               *)
(***************************************************************************)
EMERGENCY_TERMS == {"chest pain", "shortness of breath", "severe bleeding", "confusion", "stroke", "numbness face", "fainting", "anaphylaxis", "seizure"}
URGENT_TERMS == {"fever", "worsening cough", "rash spreading", "moderate pain", "vomiting", "dehydration", "wound infection"}

SPO2_LIMIT == 94
SBP_LIMIT == 90
HR_LIMIT == 130

\* terms = {s.lower() for s in payload.symptoms}
terms(payload) == {Lower(payload.symptoms[i]) : i \in DOMAIN payload.symptoms}

\* The orders in which a set can be iterated.  The iteration order of a set
\* of str depends on the hash seed of the process and on the insertion order,
\* so " ".join(terms) is the join of any one of these.
IterOrders(S) == {f \in [1..Cardinality(S) -> S] : Range(f) = S}

\* Mutant of AnyTermIn: the joined text must be a term, not contain one.
AnyTermIn_exact(TERMS, joined) == joined \in TERMS

\* any(t in " ".join(terms) for t in TERMS)
AnyTermIn(TERMS, joined) == \E t \in TERMS : Contains(t, joined)

\* The three vitals checks, in the order of the code.
VitalsFlags(vitals) ==
    IF vitals = None THEN <<>>
    ELSE LET v == Get(vitals)
         IN (IF v.spo2 # None /\ Get(v.spo2) < SPO2_LIMIT THEN <<"SpO2 < 94%.">> ELSE <<>>)
            \o (IF v.sbp # None /\ Get(v.sbp) < SBP_LIMIT THEN <<"Low systolic BP (<90).">> ELSE <<>>)
            \o (IF v.hr # None /\ Get(v.hr) # 0 /\ Get(v.hr) > HR_LIMIT THEN <<"Very high heart rate (>130).">> ELSE <<>>)

RedFlags(payload, joined) ==
    (IF AnyTermIn(EMERGENCY_TERMS, joined) THEN <<"Reported emergency symptom(s).">> ELSE <<>>)
    \o VitalsFlags(payload.vitals)

TriageResult(level, red_flags, recommendation, self_care_instructions, follow_up_hours) ==
    [level |-> level, red_flags |-> red_flags, recommendation |-> recommendation,
     self_care_instructions |-> self_care_instructions, follow_up_hours |-> follow_up_hours]

\* Mutant of triage_rules: the urgent tier is tested before the red flags.
triage_rules_urgent_first(payload, order) ==
    LET joined == Join(" ", order)
        red_flags == RedFlags(payload, joined)
    IN IF AnyTermIn(URGENT_TERMS, joined)
       THEN TriageResult("urgent_care", <<>>, "See a clinician today or within 24 hours.",
                         Some("Hydrate and rest until evaluated."), Some(24))
       ELSE IF red_flags # <<>>
       THEN TriageResult("emergency", red_flags, "Call emergency services now.", None, Some(0))
       ELSE TriageResult("self_care", <<>>, "Self-care is reasonable.",
                         Some("Rest, hydrate, and monitor symptoms for changes."), Some(48))

\* triage_rules(payload), with the set `terms` iterated in the order `order`
\* (both joins of one call iterate the unmodified set in the same order).
triage_rules(payload, order) ==
    LET joined == Join(" ", order)
        red_flags == RedFlags(payload, joined)
    IN IF red_flags # <<>>
       THEN TriageResult("emergency", red_flags, "Call emergency services now.", None, Some(0))
       ELSE IF AnyTermIn(URGENT_TERMS, joined)
       THEN TriageResult("urgent_care", <<>>, "See a clinician today or within 24 hours.",
                         Some("Hydrate and rest until evaluated."), Some(24))
       ELSE TriageResult("self_care", <<>>, "Self-care is reasonable.",
                         Some("Rest, hydrate, and monitor symptoms for changes."), Some(48))

(***************************************************************************)
(* Mock DDI table and the drug-interaction check.                          *)
(***************************************************************************)
Info(severity, mechanism, rec) == [severity |-> severity, mechanism |-> mechanism, rec |-> rec]

DDI_TABLE ==
    (<<"sertraline", "trazodone">> :> Info("moderate", "Additive serotonergic effects", "Avoid combo if possible; monitor for serotonin syndrome."))
    @@ (<<"ibuprofen", "aspirin">> :> Info("moderate", "Additive GI bleeding risk", "Avoid frequent combined use unless advised by clinician."))
    @@ (<<"warfarin", "ibuprofen">> :> Info("major", "Increased bleeding risk", "Avoid; consult clinician for alternative analgesic."))

\* DDI_TABLE.get(key)
TableGet(key) == IF key \in DOMAIN DDI_TABLE THEN Some(DDI_TABLE[key]) ELSE None

\* Mutant of normalize_names: blank entries are kept.
normalize_names_keep_blank(nameList) == [i \in DOMAIN nameList |-> Lower(Strip(nameList[i]))]

\* [n.strip().lower() for n in names if n and n.strip()]
normalize_names(nameList) ==
    LET kept == SelectSeq(nameList, LAMBDA n : n # "" /\ Strip(n) # "")
    IN [i \in DOMAIN kept |-> Lower(Strip(kept[i]))]

\* The working name list: lines 113-116.
WorkingNames(payload) ==
    LET fallback == IF payload.fallback_names = None THEN <<>> ELSE Get(payload.fallback_names)
        normalized == normalize_names(fallback)
    IN IF payload.rxnorm_ids # <<>> /\ normalized = <<>>
       THEN [i \in DOMAIN payload.rxnorm_ids |-> "rxnorm:" \o payload.rxnorm_ids[i]]
       ELSE normalized

\* Mutant of PairKey: the pair is recorded as checked in input order.
PairKey_unsorted(a, b) == <<a, b>>

\* key = tuple(sorted((a,b)))
PairKey(a, b) == SortedPair(a, b)

\* k2 = tuple(sorted((a.replace("rxnorm:",""), b.replace("rxnorm:",""))))
RetryKey(a, b) == SortedPair(Replace(a, "rxnorm:", ""), Replace(b, "rxnorm:", ""))

Interaction(pair, severity, mechanism, recommendation) ==
    [pair |-> pair, severity |-> severity, mechanism |-> mechanism, recommendation |-> recommendation]

\* The nested loop over i < j, from the pair (i, j) on.
RECURSIVE PairLoop(_, _, _, _, _)
PairLoop(nameList, i, j, checked, interactions) ==
    IF i > Len(nameList) THEN interactions
    ELSE IF j > Len(nameList) THEN PairLoop(nameList, i + 1, i + 2, checked, interactions)
    ELSE LET a == nameList[i]
             b == nameList[j]
             key == PairKey(a, b)
         IN IF key \in checked THEN PairLoop(nameList, i, j + 1, checked, interactions)
            ELSE LET direct == TableGet(key)
                     info == IF direct = None THEN TableGet(RetryKey(a, b)) ELSE direct
                 IN PairLoop(nameList, i, j + 1, checked \cup {key},
                             IF info # None
                             THEN Append(interactions, Interaction(<<a, b>>, Get(info).severity, Get(info).mechanism, Get(info).rec))
                             ELSE interactions)

DDICheckResult(interactions, unknown_names) == [interactions |-> interactions, unknown_names |-> unknown_names]

drug_interactions_check(payload) ==
    DDICheckResult(PairLoop(WorkingNames(payload), 1, 2, {}, <<>>), <<>>)

(***************************************************************************)
(* Leaflets.  The table is built anew by every call of education_leaflet.  *)
(***************************************************************************)
Leaflet(title, text, key_points, sources) ==
    [title |-> title, text |-> text, key_points |-> key_points, sources |-> sources]

leaflets ==
    ("asthma" :> Leaflet("Asthma",
        "Asthma affects the airways in your lungs, making them narrow and swollen. Use your rescue inhaler for sudden symptoms and avoid smoke and strong scents.",
        <<"Carry your rescue inhaler.", "See a clinician if you need your inhaler more than 2 days/week.">>,
        <<[name |-> "MedlinePlus", url |-> "https://medlineplus.gov/asthma.html"]>>))
    @@ ("ibuprofen" :> Leaflet("Ibuprofen",
        "Ibuprofen is a pain and fever reducer (NSAID). Take with food. Do not combine routinely with other NSAIDs like aspirin unless advised.",
        <<"Max OTC dose 1200 mg/day unless directed.", "Stop and seek care for stomach bleeding signs.">>,
        <<[name |-> "DailyMed (Label)", url |-> "https://dailymed.nlm.nih.gov/"]>>))

\* Mutant of ReadingLevel: the requested level is attached as given.
ReadingLevel_unchecked(reading_level) == reading_level

\* "basic" if reading_level not in {"basic","standard"} else reading_level
ReadingLevel(reading_level) == IF reading_level \notin {"basic", "standard"} THEN "basic" ELSE reading_level

education_leaflet_data(topic, reading_level) ==
    LET t == Lower(Strip(topic))
        data == IF t \in DOMAIN leaflets
                THEN leaflets[t]
                ELSE Leaflet(Title(topic), "Plain-language leaflet for '" \o topic \o "' not found. This is a demo endpoint.", <<>>, <<>>)
    IN [reading_level |-> ReadingLevel(reading_level)] @@ data

(***************************************************************************)
(* End of session.                                                         *)
(***************************************************************************)
SATISFIED == "i am satisfied with my care"

\* Mutant of SessionPhrase: the phrase is lowercased but not trimmed.
SessionPhrase_untrimmed(user_phrase) == Lower(user_phrase)

\* phrase = (payload.user_phrase or "").strip().lower()
SessionPhrase(user_phrase) == Lower(Strip(user_phrase))

EndSessionResult(ended, message) == [ended |-> ended, message |-> message]

\* The response of end_session: the result, or the HTTPException as the
\* framework sends it.
end_session_response(payload) ==
    IF SessionPhrase(payload.user_phrase) = SATISFIED
    THEN [status |-> 200, body |-> EndSessionResult(TRUE, "Goodbye.")]
    ELSE [status |-> 412, body |-> [detail |-> EndSessionResult(FALSE, "Please say: I am satisfied with my care.")]]

(***************************************************************************)
(* The requests the model submits.                                         *)
(***************************************************************************)
Symptoms == {"chest", "pain", "Fever", "mild headache", "Stroked"}
SymptomLists == SeqsUpTo(Symptoms, MaxSymptoms) \ {<<>>}

Vitals(hr, temp_c, sbp, spo2) == [hr |-> hr, temp_c |-> temp_c, sbp |-> sbp, spo2 |-> spo2]
VitalsValues ==
    {None}
    \cup {Some(Vitals(None, None, None, None)), Some(Vitals(None, Some(37), None, None))}
    \cup {Some(Vitals(Some(h), None, None, None)) : h \in {0, 130, 131}}
    \cup {Some(Vitals(None, None, Some(b), None)) : b \in {89, 90}}
    \cup {Some(Vitals(None, None, None, Some(o))) : o \in {93, 94}}
    \cup {Some(Vitals(Some(131), Some(39), Some(89), Some(93))), Some(Vitals(Some(130), Some(37), Some(90), Some(94)))}

TriageInput(symptoms, vitals) ==
    [age |-> None, symptoms |-> symptoms, duration_hours |-> None, vitals |-> vitals, allergies |-> None]
TriageInputs == {TriageInput(s, v) : s \in SymptomLists, v \in VitalsValues}

DrugNames == {"Sertraline", "Trazodone ", "ibuprofen", "aspirin", "  ", "sertrarxnorm:line"}
RxnormIds == {"123", "sertraline", "trazodone"}
DDICheckInput(rxnorm_ids, fallback_names) == [rxnorm_ids |-> rxnorm_ids, fallback_names |-> fallback_names]
DDICheckInputs ==
    {DDICheckInput(ids, fb) : ids \in SeqsUpTo(RxnormIds, MaxIds),
                              fb \in {None} \cup {Some(f) : f \in SeqsUpTo(DrugNames, MaxNames)}}

Topics == {"ASTHMA", " asthma ", "Ibuprofen", "unknownxyz", "heart attack", " "}
ReadingLevels == {"basic", "standard", "x", "Standard"}

Phrases ==
    {l \o p \o r : l \in {"", " ", "\t "}, r \in {"", " ", " \n"},
                   p \in {"i am satisfied with my care", "I AM SATISFIED WITH MY CARE", "I am satisfied with my care",
                          "i am satisfied with my care.", "i  am satisfied with my care", "i am satisfied", "ok", ""}}
EndSessionInput(user_phrase) == [user_phrase |-> user_phrase]

Response(status, body) == [status |-> status, body |-> body]
NoCall == [none |-> TRUE]

Init ==
    /\ pc = "idle"
    /\ op = "none"
    /\ request = NoCall
    /\ names = <<>>
    /\ blob = ""
    /\ response = NoCall
    /\ request2 = NoCall
    /\ response2 = NoCall

\* POST /triage-assess
triage_assess ==
    /\ pc = "idle"
    /\ \E payload \in TriageInputs : \E order \in IterOrders(terms(payload)) :
        /\ request' = payload
        /\ blob' = Join(" ", order)
        /\ response' = Response(200, triage_rules(payload, order))
    /\ pc' = "done"
    /\ op' = "triage"
    /\ UNCHANGED <<names, request2, response2>>

\* POST /drug-interactions
drug_interactions_check_call ==
    /\ pc = "idle"
    /\ \E payload \in DDICheckInputs :
        /\ request' = payload
        /\ names' = WorkingNames(payload)
        /\ response' = Response(200, drug_interactions_check(payload))
    /\ pc' = "done"
    /\ op' = "ddi"
    /\ UNCHANGED <<blob, request2, response2>>

\* GET /education-leaflet
education_leaflet ==
    /\ pc = "idle"
    /\ \E topic \in Topics, reading_level \in ReadingLevels :
        /\ request' = [topic |-> topic, reading_level |-> reading_level]
        /\ response' = Response(200, education_leaflet_data(topic, reading_level))
    /\ pc' = "done"
    /\ op' = "leaflet"
    /\ UNCHANGED <<names, blob, request2, response2>>

\* POST /end-session
end_session ==
    /\ pc = "idle"
    /\ \E user_phrase \in Phrases :
        /\ request' = EndSessionInput(user_phrase)
        /\ response' = end_session_response(EndSessionInput(user_phrase))
    /\ pc' = "done"
    /\ op' = "end"
    /\ UNCHANGED <<names, blob, request2, response2>>

\* The request is submitted once more, to this process or to a fresh one; a
\* triage request may list the same symptom strings in another order or
\* repeated.  No handler has written anything the second call could read.
Resubmit ==
    /\ pc = "done"
    /\ \/ /\ op = "triage"
          /\ \E symptoms \in SeqsUpTo(Range(request.symptoms), MaxSymptoms) :
                /\ Range(symptoms) = Range(request.symptoms)
                /\ LET payload == TriageInput(symptoms, request.vitals)
                   IN \E order \in IterOrders(terms(payload)) :
                        /\ request2' = payload
                        /\ response2' = Response(200, triage_rules(payload, order))
       \/ /\ op = "ddi"
          /\ request2' = request
          /\ response2' = Response(200, drug_interactions_check(request))
       \/ /\ op = "leaflet"
          /\ request2' = request
          /\ response2' = Response(200, education_leaflet_data(request.topic, request.reading_level))
       \/ /\ op = "end"
          /\ request2' = request
          /\ response2' = end_session_response(request)
    /\ pc' = "done2"
    /\ UNCHANGED <<op, request, names, blob, response>>

\* The responses are sent; the process keeps nothing of the calls.
Return ==
    /\ pc \in {"done", "done2"}
    /\ pc' = "idle"
    /\ op' = "none"
    /\ request' = NoCall
    /\ names' = <<>>
    /\ blob' = ""
    /\ response' = NoCall
    /\ request2' = NoCall
    /\ response2' = NoCall

Next ==
    \/ triage_assess
    \/ drug_interactions_check_call
    \/ education_leaflet
    \/ end_session
    \/ Resubmit
    \/ Return

Spec == Init /\ [][Next]_vars
(***************************************************************************)
(* Properties.                                                             *)
(***************************************************************************)
Lowered(symptoms) == {Lower(symptoms[i]) : i \in DOMAIN symptoms}

\* spo2 / sbp / hr of the request's vitals, None when there are no vitals.
VitalOf(payload, field) == IF payload.vitals = None THEN None ELSE Get(payload.vitals)[field]

VitalsAlarm(payload) ==
    \/ \E x \in VitalOf(payload, "spo2") : x < 94
    \/ \E x \in VitalOf(payload, "sbp") : x < 90
    \/ \E x \in VitalOf(payload, "hr") : x > 130

EmergencyCondition(payload, joined) ==
    \/ \E t \in EMERGENCY_TERMS : \E w \in Lowered(payload.symptoms) : Contains(t, w)
    \/ \E t \in EMERGENCY_TERMS : Contains(t, joined)
    \/ VitalsAlarm(payload)

\* C1: whenever an emergency condition holds (an emergency term is a substring
\* of the lowercased symptoms, or SpO2 < 94, or systolic BP < 90, or heart
\* rate > 130), the triage result is "emergency" with follow_up_hours 0 and a
\* non-empty red_flags, also when an urgent term is present.
C1_EmergencyWins ==
    (op = "triage" /\ EmergencyCondition(request, blob)) =>
        /\ response.status = 200
        /\ response.body.level = "emergency"
        /\ response.body.follow_up_hours = Some(0)
        /\ response.body.red_flags # <<>>

C1_Witness ==
    /\ op = "triage"
    /\ VitalsAlarm(request)
    /\ \E t \in URGENT_TERMS : Contains(t, blob)
    /\ response.body.level = "emergency"

PairInTable(a, b) == <<a, b>> \in DOMAIN DDI_TABLE \/ <<b, a>> \in DOMAIN DDI_TABLE
TableInfo(a, b) == IF <<a, b>> \in DOMAIN DDI_TABLE THEN DDI_TABLE[<<a, b>>] ELSE DDI_TABLE[<<b, a>>]

\* C2: for every two names of the working name list whose unordered pair is an
\* entry of the DDI table, the result has an Interaction for that pair with the
\* table's severity, mechanism and recommendation, whichever name comes first.
C2_EveryTablePairReported ==
    op = "ddi" =>
        \A i, j \in DOMAIN names :
            (i # j /\ PairInTable(names[i], names[j])) =>
                \E k \in DOMAIN response.body.interactions :
                    LET x == response.body.interactions[k]
                    IN /\ Range(x.pair) = {names[i], names[j]}
                       /\ x.severity = TableInfo(names[i], names[j]).severity
                       /\ x.mechanism = TableInfo(names[i], names[j]).mechanism
                       /\ x.recommendation = TableInfo(names[i], names[j]).rec

\* C3: no two entries of the returned interactions have the same
\* sort-normalized pair of names, however often a name is repeated.
C3_NoDuplicateInteractions ==
    op = "ddi" =>
        \A k, l \in DOMAIN response.body.interactions :
            k # l => SortedPair(response.body.interactions[k].pair[1], response.body.interactions[k].pair[2])
                     # SortedPair(response.body.interactions[l].pair[1], response.body.interactions[l].pair[2])

C3_Witness ==
    /\ op = "ddi"
    /\ \E i, j, k \in DOMAIN names :
        /\ i < j /\ j < k
        /\ names[i] = names[k]
        /\ PairInTable(names[j], names[i])
    /\ Len(response.body.interactions) = 1

\* The phrase is the required sentence up to letter case, between whitespace.
Satisfied(user_phrase) ==
    \E i \in 1..Len(user_phrase) :
        /\ i + Len(SATISFIED) - 1 <= Len(user_phrase)
        /\ \A k \in 1..(i - 1) : IsSpace(Char(user_phrase, k))
        /\ \A k \in (i + Len(SATISFIED))..Len(user_phrase) : IsSpace(Char(user_phrase, k))
        /\ \A k \in 1..Len(SATISFIED) :
            LET c == Char(user_phrase, i + k - 1)
                t == Char(SATISFIED, k)
            IN c = t \/ (IsLower(t) /\ c = UpperChar(t))

\* C4: end_session answers 200 {ended: true, "Goodbye."} exactly when the
\* trimmed, lowercased phrase is "i am satisfied with my care", and otherwise
\* 412 with ended false and the request to say the sentence; a success never
\* has ended false.
C4_EndSessionHandshake ==
    op = "end" =>
        /\ Satisfied(request.user_phrase) =>
            response = [status |-> 200, body |-> [ended |-> TRUE, message |-> "Goodbye."]]
        /\ ~Satisfied(request.user_phrase) =>
            /\ response.status = 412
            /\ response.body.detail = [ended |-> FALSE, message |-> "Please say: I am satisfied with my care."]
        /\ response.status = 200 => response.body.ended

C4_Witness ==
    /\ op = "end"
    /\ request.user_phrase # Lower(request.user_phrase)
    /\ Len(request.user_phrase) > Len(SATISFIED)
    /\ IsSpace(Char(request.user_phrase, 1))
    /\ response.status = 200
    /\ response.body.ended

\* C5: the result of a call equals the result of the same call made alone on
\* a fresh process, whatever calls came before.
C5_SameAsOnFreshProcess ==
    (pc = "done2" /\ request2 = request) => response2 = response

\* C6: with no emergency term in the joined lowercased symptoms and no vitals
\* flag, the result is urgent_care / 24 when an urgent term is a substring of
\* the joined lowercased symptoms and self_care / 48 otherwise, with empty
\* red_flags; red_flags is non-empty only for level "emergency".
C6_UrgentOrSelfCare ==
    op = "triage" =>
        /\ \E order \in IterOrders(Lowered(request.symptoms)) : blob = Join(" ", order)
        /\ (~VitalsAlarm(request) /\ ~\E t \in EMERGENCY_TERMS : Contains(t, blob)) =>
            /\ response.body.red_flags = <<>>
            /\ IF \E t \in URGENT_TERMS : Contains(t, blob)
               THEN response.body.level = "urgent_care" /\ response.body.follow_up_hours = Some(24)
               ELSE response.body.level = "self_care" /\ response.body.follow_up_hours = Some(48)
        /\ response.body.red_flags # <<>> => response.body.level = "emergency"

C6_Witness ==
    /\ op = "triage"
    /\ request.vitals # None
    /\ Len(request.symptoms) > 1
    /\ response.body.level = "urgent_care"
    /\ response.body.follow_up_hours = Some(24)

\* C7: the leaflet lookup answers 200 with reading_level equal to the requested
\* one if that is "basic" or "standard" and "basic" otherwise; on a hit the
\* stored title, text, key_points and sources, on a miss no key_points and no
\* sources.
C7_Leaflet ==
    op = "leaflet" =>
        LET key == Lower(Strip(request.topic))
            body == response.body
        IN /\ response.status = 200
           /\ body.reading_level = (IF request.reading_level = "standard" THEN "standard" ELSE "basic")
           /\ key = "asthma" => body.title = "Asthma" /\ body.sources[1].name = "MedlinePlus"
           /\ key \in DOMAIN leaflets =>
                /\ body.title = leaflets[key].title
                /\ body.text = leaflets[key].text
                /\ body.key_points = leaflets[key].key_points
                /\ body.sources = leaflets[key].sources
           /\ key \notin DOMAIN leaflets => body.key_points = <<>> /\ body.sources = <<>>

C7_Witness ==
    /\ op = "leaflet"
    /\ request.topic = "ASTHMA"
    /\ request.reading_level = "x"
    /\ response.body.title = "Asthma"
    /\ response.body.reading_level = "basic"

\* C8: two evaluations of triage requests that list the same symptom strings
\* (in any order, repeated or not) with the same vitals return the same level,
\* red_flags and follow_up_hours.
C8_OrderInsensitive ==
    (pc = "done2" /\ op = "triage") =>
        /\ response2.body.level = response.body.level
        /\ response2.body.red_flags = response.body.red_flags
        /\ response2.body.follow_up_hours = response.body.follow_up_hours

\* A name without its leading "rxnorm:" prefix, if it has one.
WithoutPrefix(n) == IF StartsWith(n, "rxnorm:") THEN SubSeq(n, Len("rxnorm:") + 1, Len(n)) ELSE n

\* C9: an interaction is reported only for a pair that is in the table
\* as it is, or after a leading "rxnorm:" is removed from each name; "rxnorm:"
\* elsewhere in a name is left alone.
C9_OnlyLeadingPrefixStripped ==
    op = "ddi" =>
        \A k \in DOMAIN response.body.interactions :
            LET a == response.body.interactions[k].pair[1]
                b == response.body.interactions[k].pair[2]
            IN \/ SortedPair(a, b) \in DOMAIN DDI_TABLE
               \/ SortedPair(WithoutPrefix(a), WithoutPrefix(b)) \in DOMAIN DDI_TABLE

\* The entries of a fallback list that are not blank, in order.
NonBlank(fallback) == SelectSeq(fallback, LAMBDA n : \E k \in 1..Len(n) : ~IsSpace(Char(n, k)))

\* C10: the working name list is the trimmed, lowercased, blank-free
\* fallback_names when that is non-empty, whatever rxnorm_ids is; otherwise one
\* "rxnorm:" + id per id, in order; with neither there are no interactions.  The
\* check answers 200 and unknown_names is empty.
C10_WorkingNames ==
    op = "ddi" =>
        LET fallback == IF request.fallback_names = None THEN <<>> ELSE Get(request.fallback_names)
            kept == NonBlank(fallback)
        IN /\ response.status = 200
           /\ response.body.unknown_names = <<>>
           /\ kept # <<>> =>
                /\ Len(names) = Len(kept)
                /\ \A k \in DOMAIN kept : names[k] = Lower(Strip(kept[k]))
           /\ kept = <<>> =>
                /\ Len(names) = Len(request.rxnorm_ids)
                /\ \A k \in DOMAIN names : names[k] = "rxnorm:" \o request.rxnorm_ids[k]
           /\ (kept = <<>> /\ request.rxnorm_ids = <<>>) => response.body.interactions = <<>>

C10_Witness ==
    /\ op = "ddi"
    /\ request.rxnorm_ids # <<>>
    /\ request.fallback_names # None
    /\ Len(names) = 2
    /\ Len(Get(request.fallback_names)) = 3
    /\ Len(response.body.interactions) = 1
====
